---- MODULE Spec2Model ----
(***************************************************************************)
(* Model of src/main.py: the book-club voting pipeline                     *)
(*   _load_csv -> _get_all_book_titles -> _combinations_for_all_book_counts*)
(*   -> generate_combo_summaries -> filter_invalid_summaries -> sorted     *)
(*   -> print_results.                                                     *)
(*                                                                         *)
(* Strings are sequences of one-character strings, so that str.split,      *)
(* str.strip and last_name[0] are computed as Python computes them.        *)
(* A UserPreference object is identified by its index in user_prefs (the   *)
(* supporter lists of the code hold references to those objects).          *)
(* Floats: avg_score and harmonic_mean are exact rationals <<num, den>>;   *)
(* root_mean_square is the symbolic square root [sqrt_of |-> rational].    *)
(* For the small integers involved, float division of equal rationals      *)
(* gives equal doubles and unequal rationals differ by far more than an    *)
(* ulp, so the order of the float keys is the order of the rationals.      *)
(***************************************************************************)
EXTENDS Integers, Sequences, FiniteSets, TLC

\* ---------------------------------------------------------------- bounds
\* Most rows of an input file drawn from RichRows.
MaxRows == 3
\* Most rows of an input file drawn from PlainRows.
MaxPlainRows == 6

\* ------------------------------------------------------ program constants
MIN_GROUP_SIZE == 3
FIRST_NAME_COLUMN_IDX == 3
LAST_NAME_COLUMN_IDX == 4
BOOK_PREFS_COLUMN_IDX == 6
\* Slice bound of sorted_combo_summaries[0:3] in print_results.
TOP_N == 3

\* ---------------------------------------------------------------- helpers
Range(s) == {s[i] : i \in DOMAIN s}

RECURSIVE GCD(_, _)
GCD(a, b) == IF b = 0 THEN a ELSE GCD(b, a % b)

\* The rational n/d (d > 0) in lowest terms.
Rat(n, d) == LET g == GCD(n, d) IN IF g = 0 THEN <<n, d>> ELSE <<n \div g, d \div g>>
RatAdd(p, q) == Rat(p[1] * q[2] + q[1] * p[2], p[2] * q[2])
RatLess(p, q) == p[1] * q[2] < q[1] * p[2]
\* x ** 0.5, kept symbolic.
Sqrt(q) == [sqrt_of |-> q]
SqrtLess(x, y) == RatLess(x.sqrt_of, y.sqrt_of)

\* ------------------------------------------------------------ str methods
IsSpace(c) == c = " "

RECURSIVE lstrip(_)
lstrip(s) == IF s # <<>> /\ IsSpace(Head(s)) THEN lstrip(Tail(s)) ELSE s

RECURSIVE rstrip(_)
rstrip(s) ==
    IF s # <<>> /\ IsSpace(s[Len(s)]) THEN rstrip(SubSeq(s, 1, Len(s) - 1)) ELSE s

\* Mutant of strip: only the leading whitespace is removed.
strip_lstrip_only(s) == lstrip(s)

\* str.strip()
strip(s) == rstrip(lstrip(s))

RECURSIVE split_acc(_, _, _)
split_acc(s, cur, acc) ==
    IF s = <<>> THEN Append(acc, cur)
    ELSE IF Head(s) = "," THEN split_acc(Tail(s), <<>>, Append(acc, cur))
    ELSE split_acc(Tail(s), Append(cur, Head(s)), acc)

\* str.split(","): one token more than there are commas; "" gives [""].
split(s) == split_acc(s, <<>>, <<>>)

\* ------------------------------------------------------- UserPreference
\* row[idx] raises IndexError when the row has too few columns.
RowTooShort(row) == Len(row) <= BOOK_PREFS_COLUMN_IDX

\* UserPreference.from_csv_row (for a row with enough columns).
from_csv_row(row) ==
    LET books_raw == split(row[BOOK_PREFS_COLUMN_IDX + 1])
        books_cleaned == [i \in DOMAIN books_raw |-> strip(books_raw[i])]
    IN [first_name |-> row[FIRST_NAME_COLUMN_IDX + 1],
        last_name |-> row[LAST_NAME_COLUMN_IDX + 1],
        books_by_preference |-> books_cleaned]

RECURSIVE rank_scan(_, _, _)
rank_scan(books, book, rank) ==
    IF rank >= Len(books) THEN [raised |-> "ValueError", value |-> 0]
    ELSE IF books[rank + 1] = book THEN [raised |-> "", value |-> rank + 1]
    ELSE rank_scan(books, book, rank + 1)

\* Mutant of get_rank_of_book: returns the 0-based enumerate index.
RECURSIVE rank_scan_zero_based(_, _, _)
rank_scan_zero_based(books, book, rank) ==
    IF rank >= Len(books) THEN [raised |-> "ValueError", value |-> 0]
    ELSE IF books[rank + 1] = book THEN [raised |-> "", value |-> rank]
    ELSE rank_scan_zero_based(books, book, rank + 1)

get_rank_of_book_zero_based(user_pref, book) ==
    rank_scan_zero_based(user_pref.books_by_preference, book, 0)

\* UserPreference.get_rank_of_book: [raised, value].
get_rank_of_book(user_pref, book) == rank_scan(user_pref.books_by_preference, book, 0)

\* get_pretty_name indexes last_name[0]: IndexError on an empty last name.
PrettyNameRaises(user_pref) == user_pref.last_name = <<>>

\* ------------------------------------------------------------ ComboSummary
InTuple(x, t) == \E i \in DOMAIN t : t[i] = x

\* Mutant: the break is missing.
RECURSIVE scan_preferences_no_break(_, _, _, _)
scan_preferences_no_break(b2u, idx, prefs, books) ==
    IF prefs = <<>> THEN b2u
    ELSE IF InTuple(Head(prefs), books)
         THEN scan_preferences_no_break(
                  [b2u EXCEPT ![Head(prefs)] = Append(@, idx)], idx, Tail(prefs), books)
         ELSE scan_preferences_no_break(b2u, idx, Tail(prefs), books)

\* Inner loop of from_books_and_user_prefs over one record's preferences:
\* append the record to the first preferred book of the combo, then break.
RECURSIVE scan_preferences(_, _, _, _)
scan_preferences(b2u, idx, prefs, books) ==
    IF prefs = <<>> THEN b2u
    ELSE IF InTuple(Head(prefs), books)
         THEN [b2u EXCEPT ![Head(prefs)] = Append(@, idx)]
         ELSE scan_preferences(b2u, idx, Tail(prefs), books)

\* Outer loop of from_books_and_user_prefs, from record idx on.
RECURSIVE assign_supporters(_, _, _, _)
assign_supporters(b2u, idx, user_prefs_, books) ==
    IF idx > Len(user_prefs_) THEN b2u
    ELSE assign_supporters(
             scan_preferences(b2u, idx, user_prefs_[idx].books_by_preference, books),
             idx + 1, user_prefs_, books)

\* Mutant: the loop over the records starts one record too late.
build_book_to_user_pref_skip_first(books, user_prefs_) ==
    assign_supporters([b \in Range(books) |-> <<>>], 2, user_prefs_, books)

\* The dict built by from_books_and_user_prefs.
build_book_to_user_pref(books, user_prefs_) ==
    assign_supporters([b \in Range(books) |-> <<>>], 1, user_prefs_, books)

ZeroSums == [avg_running_sum |-> 0, harmonic_running_sum |-> <<0, 1>>,
             squared_running_sum |-> 0, score_count |-> 0, raised |-> ""]

\* Loop body of __post_init__ for one (book, record) pair.
add_score(acc, book, user_pref) ==
    LET r == get_rank_of_book(user_pref, book) IN
    IF acc.raised # "" THEN acc
    ELSE IF r.raised # "" THEN [acc EXCEPT !.raised = r.raised]
    ELSE IF r.value = 0 THEN [acc EXCEPT !.raised = "ZeroDivisionError"]
    ELSE [avg_running_sum |-> acc.avg_running_sum + r.value,
          harmonic_running_sum |-> RatAdd(acc.harmonic_running_sum, <<1, r.value>>),
          squared_running_sum |-> acc.squared_running_sum + r.value * r.value,
          score_count |-> acc.score_count + 1,
          raised |-> ""]

\* Mutant: one score per book (the first supporter only) instead of one per pair.
sum_supporters_first_only(acc, book, supporters, user_prefs_) ==
    IF supporters = <<>> THEN acc
    ELSE add_score(acc, book, user_prefs_[Head(supporters)])

\* Inner loop of __post_init__: the supporters of one book.
RECURSIVE sum_supporters(_, _, _, _)
sum_supporters(acc, book, supporters, user_prefs_) ==
    IF supporters = <<>> THEN acc
    ELSE sum_supporters(add_score(acc, book, user_prefs_[Head(supporters)]),
                        book, Tail(supporters), user_prefs_)

\* Outer loop of __post_init__ over book_to_user_pref.items() (dict order is
\* the order of the combo tuple), from book k on.
RECURSIVE running_sums(_, _, _, _, _)
running_sums(acc, k, books, b2u, user_prefs_) ==
    IF k > Len(books) THEN acc
    ELSE running_sums(sum_supporters(acc, books[k], b2u[books[k]], user_prefs_),
                      k + 1, books, b2u, user_prefs_)

\* ComboSummary(books, book_to_user_pref) with __post_init__; score_count is
\* the local counter of __post_init__, kept for inspection.  raised names the
\* exception the construction ends in, "" when it returns.
ComboSummary(books, b2u, user_prefs_) ==
    LET s == running_sums(ZeroSums, 1, books, b2u, user_prefs_)
        ok == s.raised = "" /\ s.score_count > 0
    IN [books |-> books,
        book_to_user_pref |-> b2u,
        score_count |-> s.score_count,
        avg_score |-> IF ok THEN Rat(s.avg_running_sum, s.score_count) ELSE <<0, 1>>,
        harmonic_mean |->
            IF ok THEN Rat(s.score_count * s.harmonic_running_sum[2],
                           s.harmonic_running_sum[1])
            ELSE <<0, 1>>,
        root_mean_square |->
            IF ok THEN Sqrt(Rat(s.squared_running_sum, s.score_count))
            ELSE Sqrt(<<0, 1>>),
        raised |-> IF s.raised # "" THEN s.raised
                   ELSE IF s.score_count = 0 THEN "ZeroDivisionError" ELSE ""]

\* ComboSummary.from_books_and_user_prefs
from_books_and_user_prefs(books, user_prefs_) ==
    ComboSummary(books, build_book_to_user_pref(books, user_prefs_), user_prefs_)


\* --------------------------------------------------- module-level functions
\* Index tuples i1 < i2 < ... < ir into a pool of n elements.
IncreasingIdx(n, r) ==
    {f \in [1..r -> 1..n] : \A j \in 1..(r - 1) : f[j] < f[j + 1]}

\* Mutant: index tuples of itertools.permutations (distinct, in any order).
AnyOrderIdx(n, r) ==
    {f \in [1..r -> 1..n] : \A j, k \in 1..r : j # k => f[j] # f[k]}

\* Mutant of combinations: itertools.permutations(pool, r).
permutations(pool, r) ==
    {[j \in 1..r |-> pool[f[j]]] : f \in AnyOrderIdx(Len(pool), r)}

\* set(itertools.combinations(pool, r)): the r-tuples of pool elements taken
\* at increasing positions.
combinations(pool, r) ==
    {[j \in 1..r |-> pool[f[j]]] : f \in IncreasingIdx(Len(pool), r)}

\* The orders in which iterating a Python set may yield its elements.
Orderings(S) ==
    {f \in [1..Cardinality(S) -> S] : \A j, k \in 1..Cardinality(S) : j # k => f[j] # f[k]}

\* _get_all_book_titles: the union of all preference lists, from record idx on.
RECURSIVE update_titles(_, _, _)
update_titles(books, idx, user_prefs_) ==
    IF idx > Len(user_prefs_) THEN books
    ELSE update_titles(books \cup Range(user_prefs_[idx].books_by_preference),
                       idx + 1, user_prefs_)

get_all_book_titles(user_prefs_) == update_titles({}, 1, user_prefs_)

\* The loop of generate_combo_summaries from combo k on; an exception raised
\* by a ComboSummary ends it.
RECURSIVE summaries_from(_, _, _, _)
summaries_from(done, k, user_prefs_, book_combos_) ==
    IF k > Len(book_combos_) THEN [raised |-> "", value |-> done]
    ELSE LET combo_summary == from_books_and_user_prefs(book_combos_[k], user_prefs_)
         IN IF combo_summary.raised # ""
            THEN [raised |-> combo_summary.raised, value |-> <<>>]
            ELSE summaries_from(Append(done, combo_summary), k + 1,
                                user_prefs_, book_combos_)

\* generate_combo_summaries: [raised, value].
generate_combo_summaries(user_prefs_, book_combos_) ==
    summaries_from(<<>>, 1, user_prefs_, book_combos_)

\* Mutant of the quorum test: any(...) instead of all(...).
passes_quorum_any(combo_summary) ==
    \E b \in DOMAIN combo_summary.book_to_user_pref :
        Len(combo_summary.book_to_user_pref[b]) >= MIN_GROUP_SIZE

\* The condition of filter_invalid_summaries:
\* all(len(user_prefs) >= _MIN_GROUP_SIZE for user_prefs in ....values()).
passes_quorum(combo_summary) ==
    \A b \in DOMAIN combo_summary.book_to_user_pref :
        Len(combo_summary.book_to_user_pref[b]) >= MIN_GROUP_SIZE

\* key=lambda x: (x.root_mean_square, len(x.books))
sort_key(x) == <<x.root_mean_square, Len(x.books)>>

\* Python's < on the (float, int) key tuples.
key_less(k1, k2) ==
    \/ SqrtLess(k1[1], k2[1])
    \/ (k1[1] = k2[1] /\ k1[2] < k2[2])

\* Mutant of insort: x goes in front of the elements with an equal key, which
\* is what an unstable sort may do.
RECURSIVE insort_before_equal(_, _)
insort_before_equal(done, x) ==
    IF done = <<>> THEN <<x>>
    ELSE IF ~key_less(sort_key(Head(done)), sort_key(x)) THEN <<x>> \o done
    ELSE <<Head(done)>> \o insort_before_equal(Tail(done), x)

\* Insertion of x behind every element whose key is not greater (stable).
RECURSIVE insort(_, _)
insort(done, x) ==
    IF done = <<>> THEN <<x>>
    ELSE IF key_less(sort_key(x), sort_key(Head(done))) THEN <<x>> \o done
    ELSE <<Head(done)>> \o insort(Tail(done), x)

RECURSIVE sorted_from(_, _)
sorted_from(done, rest) ==
    IF rest = <<>> THEN done ELSE sorted_from(insort(done, Head(rest)), Tail(rest))

\* sorted(valid_combo_summaries, key=...)
sorted(summaries) == sorted_from(<<>>, summaries)

\* --------------------------------------------------------------- the input
MkRow(first, last, prefs) == << <<>>, <<>>, <<>>, first, last, <<>>, prefs >>

RowAB == MkRow(<<"A", "l">>, <<"Z">>, <<"A", ",", "B">>)
RowBA == MkRow(<<"B", "o">>, <<"Y">>, <<"B", ",", "A">>)
RowA == MkRow(<<"C", "y">>, <<"X">>, <<"A">>)
\* " B , A": whitespace around the tokens.
RowSpaces == MkRow(<<"D", "i">>, <<"W">>, <<" ", "B", " ", ",", " ", "A">>)
\* "A,A": the same title twice.
RowDup == MkRow(<<"E", "d">>, <<"V">>, <<"A", ",", "A">>)
\* "A,B,": a trailing comma, which leaves an empty token.
RowTrailing == MkRow(<<"F", "k">>, <<"U">>, <<"A", ",", "B", ",">>)
\* An empty last-name cell.
RowNoLastName == MkRow(<<"G", "o">>, <<>>, <<"A">>)
\* A row that ends before the preference column.
RowShort == << <<>>, <<>>, <<>>, <<"H", "a">>, <<"T">> >>

PlainRows == {RowAB, RowBA, RowA}
RichRows == {RowSpaces, RowDup, RowTrailing, RowNoLastName, RowShort}

SeqsUpTo(S, n) == UNION {[1..k -> S] : k \in 0..n}

\* --------------------------------------------------------------- the state
VARIABLES
    rows,                    \* the data rows of the CSV file (header skipped)
    pc,                      \* the stage run() is in
    error,                   \* the exception that ended the run, "" if none
    user_prefs,
    book_titles,
    title_order,             \* iteration order of the set book_titles
    combo_i,                 \* i of the loop in _combinations_for_all_book_counts
    book_combos,
    combo_summaries,
    valid_combo_summaries,
    filter_i,                \* 1-based position of the loop in filter_invalid_summaries
    filter_count,
    sorted_combo_summaries,
    print_i,                 \* 1-based index of the combo being printed
    book_i,                  \* 1-based index of the book being printed
    out                      \* the lines printed so far

vars == <<rows, pc, error, user_prefs, book_titles, title_order, combo_i, book_combos,
          combo_summaries, valid_combo_summaries, filter_i, filter_count,
          sorted_combo_summaries, print_i, book_i, out>>

Line(kind, data) == [kind |-> kind, data |-> data]

Init ==
    /\ rows \in SeqsUpTo(RichRows, MaxRows) \cup SeqsUpTo(PlainRows, MaxPlainRows)
    /\ pc = "load"
    /\ error = ""
    /\ user_prefs = <<>>
    /\ book_titles = {}
    /\ title_order = <<>>
    /\ combo_i = 1
    /\ book_combos = <<>>
    /\ combo_summaries = <<>>
    /\ valid_combo_summaries = <<>>
    /\ filter_i = 1
    /\ filter_count = 0
    /\ sorted_combo_summaries = <<>>
    /\ print_i = 1
    /\ book_i = 1
    /\ out = <<>>

Running == error = ""

\* One iteration of the list comprehension of _load_csv.
LoadRow ==
    /\ Running /\ pc = "load"
    /\ Len(user_prefs) < Len(rows)
    /\ LET row == rows[Len(user_prefs) + 1] IN
        IF RowTooShort(row)
        THEN /\ error' = "IndexError"
             /\ UNCHANGED user_prefs
        ELSE /\ user_prefs' = Append(user_prefs, from_csv_row(row))
             /\ UNCHANGED error
    /\ UNCHANGED <<rows, pc, book_titles, title_order, combo_i, book_combos,
                   combo_summaries, valid_combo_summaries, filter_i, filter_count,
                   sorted_combo_summaries, print_i, book_i, out>>

\* _load_csv returns; _get_all_book_titles builds the set of titles.
GetAllBookTitles ==
    /\ Running /\ pc = "load"
    /\ Len(user_prefs) = Len(rows)
    /\ book_titles' = get_all_book_titles(user_prefs)
    /\ title_order' \in Orderings(book_titles')
    /\ combo_i' = 1
    /\ pc' = "combos"
    /\ UNCHANGED <<rows, error, user_prefs, book_combos, combo_summaries,
                   valid_combo_summaries, filter_i, filter_count,
                   sorted_combo_summaries, print_i, book_i, out>>

\* One iteration of the loop of _combinations_for_all_book_counts: extend by
\* set(itertools.combinations(books, i)), in the order the set yields them.
CombinationsStep ==
    /\ Running /\ pc = "combos"
    /\ combo_i <= Cardinality(book_titles)
    /\ \E order \in Orderings(combinations(title_order, combo_i)) :
           book_combos' = book_combos \o order
    /\ combo_i' = combo_i + 1
    /\ UNCHANGED <<rows, pc, error, user_prefs, book_titles, title_order,
                   combo_summaries, valid_combo_summaries, filter_i, filter_count,
                   sorted_combo_summaries, print_i, book_i, out>>

\* _combinations_for_all_book_counts returns; generate_combo_summaries.
GenerateComboSummaries ==
    /\ Running /\ pc = "combos"
    /\ combo_i > Cardinality(book_titles)
    /\ LET result == generate_combo_summaries(user_prefs, book_combos)
       IN IF result.raised # ""
          THEN /\ error' = result.raised
               /\ UNCHANGED <<combo_summaries, pc>>
          ELSE /\ combo_summaries' = result.value
               /\ pc' = "filter"
               /\ UNCHANGED error
    /\ UNCHANGED <<rows, user_prefs, book_titles, title_order, combo_i, book_combos,
                   valid_combo_summaries, filter_i, filter_count,
                   sorted_combo_summaries, print_i, book_i, out>>

\* Mutant of FilterStep: filter_count is incremented for every summary.
FilterStepCountAll ==
    /\ Running /\ pc = "filter"
    /\ filter_i <= Len(combo_summaries)
    /\ filter_i' = filter_i + 1
    /\ LET combo_summary == combo_summaries[filter_i]
       IN IF passes_quorum(combo_summary)
          THEN /\ valid_combo_summaries' = Append(valid_combo_summaries, combo_summary)
               /\ filter_count' = filter_count + 1
          ELSE /\ filter_count' = filter_count + 1
               /\ UNCHANGED valid_combo_summaries
    /\ UNCHANGED <<rows, pc, error, user_prefs, book_titles, title_order, combo_i,
                   book_combos, combo_summaries, sorted_combo_summaries,
                   print_i, book_i, out>>

\* One iteration of the loop of filter_invalid_summaries.
FilterStep ==
    /\ Running /\ pc = "filter"
    /\ filter_i <= Len(combo_summaries)
    /\ filter_i' = filter_i + 1
    /\ LET combo_summary == combo_summaries[filter_i]
       IN IF passes_quorum(combo_summary)
          THEN /\ valid_combo_summaries' = Append(valid_combo_summaries, combo_summary)
               /\ UNCHANGED filter_count
          ELSE /\ filter_count' = filter_count + 1
               /\ UNCHANGED valid_combo_summaries
    /\ UNCHANGED <<rows, pc, error, user_prefs, book_titles, title_order, combo_i,
                   book_combos, combo_summaries, sorted_combo_summaries,
                   print_i, book_i, out>>

\* The end of filter_invalid_summaries: print the count and return.
FilterReturn ==
    /\ Running /\ pc = "filter"
    /\ filter_i > Len(combo_summaries)
    /\ out' = Append(out, Line("filtered", <<filter_count>>))
    /\ pc' = "sort"
    /\ UNCHANGED <<rows, error, user_prefs, book_titles, title_order, combo_i,
                   book_combos, combo_summaries, valid_combo_summaries, filter_i, filter_count,
                   sorted_combo_summaries, print_i, book_i>>

\* sorted(valid_combo_summaries, key=...) in run().
Sort ==
    /\ Running /\ pc = "sort"
    /\ sorted_combo_summaries' = sorted(valid_combo_summaries)
    /\ pc' = "header"
    /\ UNCHANGED <<rows, error, user_prefs, book_titles, title_order, combo_i,
                   book_combos, combo_summaries, valid_combo_summaries, filter_i, filter_count,
                   print_i, book_i, out>>

\* The head of print_results: the title and the four counts.
PrintHeader ==
    /\ Running /\ pc = "header"
    /\ out' = Append(out, Line("header",
                  <<Len(user_prefs), Cardinality(book_titles), Len(book_combos),
                    Len(valid_combo_summaries)>>))
    /\ print_i' = 1
    /\ pc' = IF sorted_combo_summaries = <<>> THEN "done" ELSE "combo"
    /\ UNCHANGED <<rows, error, user_prefs, book_titles, title_order, combo_i,
                   book_combos, combo_summaries, valid_combo_summaries, filter_i, filter_count,
                   sorted_combo_summaries, book_i>>

\* One iteration of the loop of print_results up to the loop over the books
\* of print_combo_result: the "#i - titles" line and the three statistics.
PrintCombo ==
    /\ Running /\ pc = "combo"
    /\ out' = out \o <<Line("combo", <<print_i>>), Line("stats", <<print_i>>)>>
    /\ book_i' = 1
    /\ pc' = "book"
    /\ UNCHANGED <<rows, error, user_prefs, book_titles, title_order, combo_i,
                   book_combos, combo_summaries, valid_combo_summaries, filter_i, filter_count,
                   sorted_combo_summaries, print_i>>

\* One iteration of the loop over the books in print_combo_result: the list
\* users_with_book_rank is built first (get_pretty_name and get_rank_of_book
\* may raise), then the book and its supporters are printed.
PrintBook ==
    /\ Running /\ pc = "book"
    /\ LET combo == sorted_combo_summaries[print_i]
           book == combo.books[book_i]
           users_for_book == combo.book_to_user_pref[book]
           last_book == book_i = Len(combo.books)
           last_combo == print_i = Len(sorted_combo_summaries) \/ print_i = TOP_N
       IN IF \E k \in DOMAIN users_for_book : PrettyNameRaises(user_prefs[users_for_book[k]])
          THEN /\ error' = "IndexError"
               /\ UNCHANGED <<out, pc, print_i, book_i>>
          ELSE IF \E k \in DOMAIN users_for_book :
                      get_rank_of_book(user_prefs[users_for_book[k]], book).raised # ""
          THEN /\ error' = "ValueError"
               /\ UNCHANGED <<out, pc, print_i, book_i>>
          ELSE /\ out' = out \o <<Line("book", <<print_i, book_i>>)>> \o
                         [k \in DOMAIN users_for_book |->
                             Line("user", <<users_for_book[k],
                                 get_rank_of_book(user_prefs[users_for_book[k]], book).value>>)]
               /\ book_i' = IF last_book THEN 1 ELSE book_i + 1
               /\ print_i' = IF last_book /\ ~last_combo THEN print_i + 1 ELSE print_i
               /\ pc' = IF ~last_book THEN "book"
                        ELSE IF last_combo THEN "done" ELSE "combo"
               /\ UNCHANGED error
    /\ UNCHANGED <<rows, user_prefs, book_titles, title_order, combo_i, book_combos,
                   combo_summaries, valid_combo_summaries, filter_i, filter_count,
                   sorted_combo_summaries>>

Next ==
    \/ LoadRow
    \/ GetAllBookTitles
    \/ CombinationsStep
    \/ GenerateComboSummaries
    \/ FilterStep
    \/ FilterReturn
    \/ Sort
    \/ PrintHeader
    \/ PrintCombo
    \/ PrintBook

Spec == Init /\ [][Next]_vars

\* ------------------------------------------------------ properties checked
RECURSIVE SeqSum(_)
SeqSum(q) == IF q = <<>> THEN 0 ELSE Head(q) + SeqSum(Tail(q))

RECURSIVE Factorial(_)
Factorial(n) == IF n <= 1 THEN 1 ELSE n * Factorial(n - 1)

RECURSIVE Pow2(_)
Pow2(n) == IF n = 0 THEN 1 ELSE 2 * Pow2(n - 1)

Min(S) == CHOOSE m \in S : \A n \in S : m <= n
Max(S) == CHOOSE m \in S : \A n \in S : m >= n

\* rank(r, b): the 1-based position at which b first stands in r's list.
FirstPosition(list, b) == Min({j \in DOMAIN list : list[j] = b})

\* How often record idx stands in the supporter list of book b.
SupportCount(s, idx, b) ==
    Cardinality({k \in DOMAIN s.book_to_user_pref[b] : s.book_to_user_pref[b][k] = idx})

\* The ranks of all (book, supporting record) pairs of a summary, book k on.
RECURSIVE FlatRanks(_, _)
FlatRanks(s, k) ==
    IF k > Len(s.books) THEN <<>>
    ELSE [i \in DOMAIN s.book_to_user_pref[s.books[k]] |->
             FirstPosition(
                 user_prefs[s.book_to_user_pref[s.books[k]][i]].books_by_preference,
                 s.books[k])]
         \o FlatRanks(s, k + 1)

LongestList ==
    Max({0} \cup {Len(user_prefs[i].books_by_preference) : i \in DOMAIN user_prefs})

\* The states in which a stage of run() has just returned or is behind.
Loading == pc = "load"
Generated == pc = "combos" /\ combo_i > Cardinality(book_titles)
JustScored == pc = "filter" /\ filter_i = 1
Filtered == pc \in {"sort", "header", "combo", "book", "done"}
Ranked == pc \in {"header", "combo", "book", "done"}

\* C1: in every summary built by from_books_and_user_prefs a record stands in
\* at most one supporter list; a record that lists a book of the combo
\* supports exactly the combo book it ranks first, and a record that lists no
\* book of the combo supports none.
C1_FirstMatchWins ==
    JustScored =>
        \A n \in DOMAIN combo_summaries : \A idx \in DOMAIN user_prefs :
            LET s == combo_summaries[n]
                list == user_prefs[idx].books_by_preference
                matching == {j \in DOMAIN list : InTuple(list[j], s.books)}
            IN \A b \in DOMAIN s.book_to_user_pref :
                   SupportCount(s, idx, b) =
                       IF matching # {} /\ b = list[Min(matching)] THEN 1 ELSE 0

\* A record that lists both books of a two-book combo and supports one of
\* them, and a record that lists no book of some combo.
C1_Witness ==
    /\ JustScored
    /\ \E n \in DOMAIN combo_summaries : \E idx \in DOMAIN user_prefs :
           LET s == combo_summaries[n]
               list == user_prefs[idx].books_by_preference
           IN /\ Len(s.books) = 2
              /\ \A k \in DOMAIN s.books : InTuple(s.books[k], list)
              /\ \E b \in DOMAIN s.book_to_user_pref : SupportCount(s, idx, b) = 1
    /\ \E n \in DOMAIN combo_summaries : \E idx \in DOMAIN user_prefs :
           /\ \A j \in DOMAIN user_prefs[idx].books_by_preference :
                  ~InTuple(user_prefs[idx].books_by_preference[j], combo_summaries[n].books)
           /\ \A b \in DOMAIN combo_summaries[n].book_to_user_pref :
                  SupportCount(combo_summaries[n], idx, b) = 0

\* The statistics of s agree with the ranks of all its pairs; D is a multiple
\* of every rank, so that D / rank is whole.
StatisticsAgree(s, ranks, D) ==
    LET N == Len(ranks) IN
    /\ s.score_count = N
    /\ s.avg_score[1] * N = SeqSum(ranks) * s.avg_score[2]
    /\ s.harmonic_mean[1] * SeqSum([i \in DOMAIN ranks |-> D \div ranks[i]])
           = N * D * s.harmonic_mean[2]
    /\ s.root_mean_square.sqrt_of[1] * N
           = SeqSum([i \in DOMAIN ranks |-> ranks[i] * ranks[i]])
               * s.root_mean_square.sqrt_of[2]
    /\ (\A i \in DOMAIN ranks : ranks[i] = 1) =>
           /\ s.avg_score = <<1, 1>>
           /\ s.harmonic_mean = <<1, 1>>
           /\ s.root_mean_square = Sqrt(<<1, 1>>)

\* C2: the statistics of every summary are taken over all (book, supporter)
\* pairs of the combo at once: the divisor N is the sum of the lengths of the
\* supporter lists, the arithmetic mean is (sum of ranks) / N, the harmonic
\* mean is N / (sum of 1/rank), the quadratic mean is the square root of
\* (sum of squared ranks) / N, and all three are 1 when every rank is 1.
C2_StatisticsOverAllPairs ==
    JustScored =>
        \A n \in DOMAIN combo_summaries :
            /\ Len(FlatRanks(combo_summaries[n], 1)) =
                   SeqSum([k \in DOMAIN combo_summaries[n].books |->
                       Len(combo_summaries[n].book_to_user_pref[combo_summaries[n].books[k]])])
            /\ StatisticsAgree(combo_summaries[n], FlatRanks(combo_summaries[n], 1),
                               Factorial(LongestList))

\* Among the scored summaries: one of two books that both have supporters,
\* one with ranks 1 and 2 among its pairs, and one whose supporters, three or
\* more, all have rank 1.
C2_Witness ==
    /\ JustScored
    /\ \E n \in DOMAIN combo_summaries :
           LET s == combo_summaries[n] IN
           /\ Len(s.books) = 2
           /\ \A b \in DOMAIN s.book_to_user_pref : s.book_to_user_pref[b] # <<>>
    /\ \E n \in DOMAIN combo_summaries :
           /\ Range(FlatRanks(combo_summaries[n], 1)) = {1, 2}
           /\ combo_summaries[n].avg_score = <<3, 2>>
           /\ combo_summaries[n].harmonic_mean = <<4, 3>>
           /\ combo_summaries[n].root_mean_square = Sqrt(<<5, 2>>)
    /\ \E n \in DOMAIN combo_summaries :
           LET s == combo_summaries[n] IN
           /\ s.score_count >= MIN_GROUP_SIZE
           /\ Range(FlatRanks(s, 1)) = {1}
           /\ s.harmonic_mean = <<1, 1>>

\* C3: _combinations_for_all_book_counts(U) yields exactly 2^|U| - 1 combos,
\* each a non-empty subset of U, no subset twice, every non-empty subset once;
\* none for the empty U.
C3_AllNonEmptySubsets ==
    Generated =>
        /\ Len(book_combos) = Pow2(Cardinality(book_titles)) - 1
        /\ \A i \in DOMAIN book_combos :
               /\ book_combos[i] # <<>>
               /\ Range(book_combos[i]) \subseteq book_titles
        /\ \A i, j \in DOMAIN book_combos :
               i # j => Range(book_combos[i]) # Range(book_combos[j])
        /\ \A T \in SUBSET book_titles :
               T # {} => \E i \in DOMAIN book_combos : Range(book_combos[i]) = T
        /\ (book_titles = {} => book_combos = <<>>)

\* The seven combos of a universe of three titles.
C3_Witness ==
    /\ Generated
    /\ Cardinality(book_titles) = 3
    /\ Len(book_combos) = 7

\* min over the books of a summary of the number of supporters.
MinSupporters(s) ==
    Min({Len(s.book_to_user_pref[b]) : b \in DOMAIN s.book_to_user_pref})

HasQuorum(s) == MinSupporters(s) >= MIN_GROUP_SIZE

\* C4: filter_invalid_summaries retains a summary if and only if every book
\* of its combo has at least 3 supporters, and keeps the retained summaries in
\* their input order.
C4_QuorumFilter ==
    /\ pc = "filter" /\ filter_i <= Len(combo_summaries) + 1 =>
           valid_combo_summaries =
               SelectSeq(SubSeq(combo_summaries, 1, filter_i - 1), HasQuorum)
    /\ Filtered =>
           /\ valid_combo_summaries = SelectSeq(combo_summaries, HasQuorum)
           /\ \A i \in DOMAIN valid_combo_summaries :
                  MinSupporters(valid_combo_summaries[i]) >= 3
           /\ \A i \in DOMAIN combo_summaries :
                  MinSupporters(combo_summaries[i]) < 3 =>
                      \A j \in DOMAIN valid_combo_summaries :
                          valid_combo_summaries[j] # combo_summaries[i]

\* The filter has returned; it rejected a summary and then retained two
\* that came after it.
C4_Witness ==
    /\ Filtered
    /\ Len(valid_combo_summaries) >= 2
    /\ \E i, j, k \in DOMAIN combo_summaries :
           /\ i < j /\ j < k
           /\ ~HasQuorum(combo_summaries[i])
           /\ HasQuorum(combo_summaries[j])
           /\ HasQuorum(combo_summaries[k])

\* (quadratic mean, book count) of a summary, compared as a pair.
KeyLeq(s, t) ==
    LET a == s.root_mean_square.sqrt_of
        b == t.root_mean_square.sqrt_of
    IN \/ a[1] * b[2] < b[1] * a[2]
       \/ (a[1] * b[2] = b[1] * a[2] /\ Len(s.books) <= Len(t.books))

SameKey(s, t) == KeyLeq(s, t) /\ KeyLeq(t, s)

PlaceIn(seq, x) == CHOOSE i \in DOMAIN seq : seq[i] = x

Rejected(seq) == Cardinality({i \in DOMAIN seq : ~HasQuorum(seq[i])})

ReportedCounts == {out[i].data[1] : i \in {j \in DOMAIN out : out[j].kind = "filtered"}}

\* What holds when filter_invalid_summaries has returned.
FilterCountFinal ==
    /\ filter_count = Rejected(combo_summaries)
    /\ filter_count + Len(valid_combo_summaries) = Len(combo_summaries)
    /\ ReportedCounts = {filter_count}

\* C6: the filtered count goes up by exactly one when a summary is excluded
\* and never otherwise, so the reported count is the number of summaries with
\* a book below the minimum, and reported + retained = number of summaries.
C6_FilterCount ==
    [][/\ IF pc = "filter" /\ filter_i' = filter_i + 1
             /\ ~HasQuorum(combo_summaries[filter_i])
          THEN /\ filter_count' = filter_count + 1
               /\ valid_combo_summaries' = valid_combo_summaries
          ELSE filter_count' = filter_count
       /\ (pc = "filter" /\ pc' = "sort") => FilterCountFinal']_vars

\* The count has been reported after both a rejection and a retention.
C6_Witness ==
    /\ Filtered
    /\ filter_count >= 2
    /\ Len(valid_combo_summaries) >= 2
    /\ ReportedCounts = {filter_count}

Titles == {<<"A">>, <<"B">>, <<>>, <<"C">>}

\* C7: get_rank_of_book(b) returns the 1-based index of b in the record's
\* list when b is in it, and fails when b is not.
C7_RankLookup ==
    Loading =>
        \A idx \in DOMAIN user_prefs : \A b \in Titles :
            LET list == user_prefs[idx].books_by_preference
                r == get_rank_of_book(user_prefs[idx], b)
            IN IF \E j \in DOMAIN list : list[j] = b
               THEN /\ r.raised = ""
                    /\ r.value \in DOMAIN list
                    /\ list[r.value] = b
                    /\ \A j \in 1..(r.value - 1) : list[j] # b
               ELSE r.raised = "ValueError"

\* A loaded record lists a title second and does not list another title.
C7_Witness ==
    /\ Loading
    /\ \E idx \in DOMAIN user_prefs :
           /\ get_rank_of_book(user_prefs[idx], <<"A">>) = [raised |-> "", value |-> 2]
           /\ get_rank_of_book(user_prefs[idx], <<"C">>).raised = "ValueError"

ReportKinds == {"header", "combo", "stats", "book", "user"}

\* C8: a run that ends in an error has printed no part of the report; the
\* filtered count is printed exactly when the filter had returned before.
C8_NoReportOnFailure ==
    error # "" =>
        /\ \A i \in DOMAIN out : out[i].kind \notin ReportKinds
        /\ (\E i \in DOMAIN out : out[i].kind = "filtered") <=> Filtered

NoDuplicates(list) == \A i, j \in DOMAIN list : i # j => list[i] # list[j]

\* C9 as stated: every record the Loader creates has a ranked list without
\* duplicate titles, the rank of a title being its position.
C9_NoDuplicateTitles ==
    \A idx \in DOMAIN user_prefs :
        /\ NoDuplicates(user_prefs[idx].books_by_preference)
        /\ \A j \in DOMAIN user_prefs[idx].books_by_preference :
               get_rank_of_book(user_prefs[idx],
                   user_prefs[idx].books_by_preference[j]).value = j

RECURSIVE WithoutSpaces(_)
WithoutSpaces(s) ==
    IF s = <<>> THEN <<>>
    ELSE IF Head(s) = " " THEN WithoutSpaces(Tail(s))
    ELSE <<Head(s)>> \o WithoutSpaces(Tail(s))

\* The titles of a list, written one after the other with commas between.
RECURSIVE Joined(_)
Joined(list) ==
    IF Len(list) = 1 THEN list[1]
    ELSE list[1] \o <<",">> \o Joined(Tail(list))

\* C9 as amended: the ranked list of every record the Loader creates is the
\* sequence of the trimmed comma-separated tokens of the row's preference
\* cell, in order and with repeated tokens kept; the rank of a title is the
\* 1-based position of its first occurrence, which is the title's own position
\* exactly when no earlier token equals it.
C9_ListIsTrimmedTokens ==
    Loading =>
        \A idx \in DOMAIN user_prefs :
            LET list == user_prefs[idx].books_by_preference
                cell == rows[idx][BOOK_PREFS_COLUMN_IDX + 1]
            IN /\ Len(list) = 1 + Cardinality({i \in DOMAIN cell : cell[i] = ","})
               /\ \A j \in DOMAIN list :
                      list[j] # <<>> => list[j][1] # " " /\ list[j][Len(list[j])] # " "
               /\ WithoutSpaces(Joined(list)) = WithoutSpaces(cell)
               /\ \A j \in DOMAIN list :
                      LET r == get_rank_of_book(user_prefs[idx], list[j])
                      IN /\ r.raised = ""
                         /\ r.value = FirstPosition(list, list[j])
                         /\ (r.value = j <=> \A k \in 1..(j - 1) : list[k] # list[j])

\* The records of a row that names a title twice and of a row with spaces
\* around its tokens have been loaded.
C9_Witness ==
    /\ Loading
    /\ \E idx \in DOMAIN user_prefs : ~NoDuplicates(user_prefs[idx].books_by_preference)
    /\ \E idx \in DOMAIN user_prefs :
           /\ \E i \in DOMAIN rows[idx][BOOK_PREFS_COLUMN_IDX + 1] :
                  rows[idx][BOOK_PREFS_COLUMN_IDX + 1][i] = " "
           /\ user_prefs[idx].books_by_preference = << <<"B">>, <<"A">> >>

\* C10: every combo generated from the loaded records' titles is scored
\* without error: N >= 1, and every supporter of a book lists that book.
C10_ScoringNeverFails ==
    /\ ~(pc = "combos" /\ error # "")
    /\ JustScored =>
           /\ Len(combo_summaries) = Len(book_combos)
           /\ \A n \in DOMAIN combo_summaries :
                  LET s == combo_summaries[n] IN
                  /\ s.books = book_combos[n]
                  /\ s.score_count >= 1
                  /\ \A b \in DOMAIN s.book_to_user_pref :
                         \A k \in DOMAIN s.book_to_user_pref[b] :
                             InTuple(b, user_prefs[s.book_to_user_pref[b][k]].books_by_preference)

\* All seven combos of three titles are scored, one of them with a single
\* supporter pair and a book nobody supports.
C10_Witness ==
    /\ JustScored
    /\ Len(combo_summaries) = 7
    /\ \E n \in DOMAIN combo_summaries :
           /\ combo_summaries[n].score_count = 1
           /\ \E b \in DOMAIN combo_summaries[n].book_to_user_pref :
                  combo_summaries[n].book_to_user_pref[b] = <<>>

====
